---- MODULE Spec2Model ----
(***************************************************************************)
(* The compliance-requirement table, the documentation score and the gap   *)
(* detector of src/models/property_types.py, with the HTTP handlers of     *)
(* src/routes/property_types.py that call them.                            *)
(*                                                                         *)
(* A table of the database is a sequence of rows; the index of a row is    *)
(* its autoincrement primary key.  Columns no modelled operation reads     *)
(* (names, addresses, dates, certificate numbers, costs) are left out.     *)
(*                                                                         *)
(* The specifications share the variables:                                 *)
(*   SpecRules  the pure function get_applicable_compliance_items applied  *)
(*              to every (property type, ownership type, floor level);     *)
(*   SpecScore  calculate_documentation_score called on a property whose   *)
(*              ComplianceItem rows are arbitrary;                         *)
(*   SpecGaps   identify_documentation_gaps called on such a property,     *)
(*              with the resolve handler marking gaps in between;          *)
(*   SpecCore   the three functions called on such a property;             *)
(*   Spec       the HTTP handlers alone, each request run to completion,   *)
(*              from the empty database;                                   *)
(*   SpecRows   the update, resolve and read handlers and gap detection on *)
(*              a property holding a subset of its rows;                   *)
(*   SpecRace   update and read requests in flight together, one database  *)
(*              statement or commit per step;                              *)
(*   SpecCreate the creation handler statement by statement, any statement *)
(*              after validation raising;                                  *)
(*   SpecPair   two stored properties with requests for either in flight   *)
(*              together.                                                  *)
(***************************************************************************)
EXTENDS Integers, Sequences, FiniteSets, TLC

VARIABLES
    properties,          \* table enhanced_properties
    compliance_items,    \* table compliance_items
    documentation_gaps,  \* table property_documentation_gaps
    last,                \* the last completed call: its name, arguments and result
    requests             \* the requests in flight (SpecRace, SpecCreate,
                         \* SpecPair), each with the
                         \* place it has reached and its local variables

vars == <<properties, compliance_items, documentation_gaps, last, requests>>

(***************************************************************************)
(* Bounds of the model.                                                    *)
(***************************************************************************)
\* properties the creation handler may create in Spec
MaxProps == 1
\* gap detection is called while the gap table holds at most this many rows
MaxPriorGaps == 1
\* stray ComplianceItem rows (beyond those of the rule table) SpecScore starts with
MaxExtra == 1

(***************************************************************************)
(* The enumerations.                                                       *)
(***************************************************************************)
PropertyType ==
    { "freestanding_house", "sectional_title_apartment",
      "sectional_title_townhouse", "cluster_home", "commercial_office",
      "retail_space", "shopping_mall", "school", "hospital", "industrial",
      "vacant_land" }

OwnershipType ==
    { "individual", "sectional_title", "share_block", "company", "trust",
      "body_corporate" }

FloorLevel ==
    { "ground_floor", "middle_floor", "top_floor", "penthouse", "basement" }

\* Python's None, for the nullable floor_level column and absent JSON keys
None == "None"

FloorLevelOrNone == FloorLevel \cup {None}

(***************************************************************************)
(* get_applicable_compliance_items                                         *)
(***************************************************************************)
Req(name, category, individual) ==
    [name |-> name, category |-> category, individual_responsibility |-> individual]

FreestandingHouseItems ==
    << Req("Electrical COC", "electrical", TRUE),
       Req("Plumbing COC", "plumbing", TRUE),
       Req("Gas COC", "gas", TRUE),
       Req("Roof Inspection", "structural", TRUE),
       Req("Pool COC", "safety", TRUE) >>

SectionalTitleBase ==
    << Req("Unit Electrical COC", "electrical", TRUE),
       Req("Unit Plumbing COC", "plumbing", TRUE),
       Req("Common Area Electrical", "electrical", FALSE),
       Req("Building Structural", "structural", FALSE) >>

\* a variant of FloorRequirements that takes the penthouse for a top floor
FloorRequirementsPenthouse(floor_level) ==
    IF floor_level \in {"top_floor", "penthouse"} THEN
        << Req("Roof Access COC", "structural", TRUE) >>
    ELSE IF floor_level = "ground_floor" THEN
        << Req("Foundation Inspection", "structural", FALSE) >>
    ELSE << >>

\* the floor-specific requirements appended to the sectional-title list
FloorRequirements(floor_level) ==
    IF floor_level = "top_floor" THEN
        << Req("Roof Access COC", "structural", TRUE) >>
    ELSE IF floor_level = "ground_floor" THEN
        << Req("Foundation Inspection", "structural", FALSE) >>
    ELSE << >>

CommercialOfficeItems ==
    << Req("Fire Safety COC", "safety", TRUE),
       Req("Occupancy Certificate", "legal", TRUE),
       Req("HVAC System COC", "mechanical", TRUE),
       Req("Accessibility Compliance", "accessibility", TRUE) >>

\* a variant of SchoolItems with the fire certificate a shared responsibility
SchoolItemsSharedFire ==
    << Req("Fire Safety COC", "safety", FALSE),
       Req("Playground Safety", "safety", TRUE),
       Req("Food Service COC", "health", TRUE),
       Req("Transportation Safety", "safety", TRUE),
       Req("Accessibility Compliance", "accessibility", TRUE) >>

SchoolItems ==
    << Req("Fire Safety COC", "safety", TRUE),
       Req("Playground Safety", "safety", TRUE),
       Req("Food Service COC", "health", TRUE),
       Req("Transportation Safety", "safety", TRUE),
       Req("Accessibility Compliance", "accessibility", TRUE) >>

HospitalItems ==
    << Req("Medical Gas Systems", "medical", TRUE),
       Req("Emergency Power Systems", "electrical", TRUE),
       Req("Infection Control Systems", "health", TRUE),
       Req("Waste Management COC", "environmental", TRUE),
       Req("Radiation Safety", "safety", TRUE) >>

\* a variant that asks a top-floor office for the roof certificate as well
get_applicable_compliance_items_office_floor(property_type, ownership_type, floor_level) ==
    IF property_type = "freestanding_house" THEN
        FreestandingHouseItems
    ELSE IF property_type \in {"sectional_title_apartment", "sectional_title_townhouse"} THEN
        SectionalTitleBase \o FloorRequirements(floor_level)
    ELSE IF property_type = "commercial_office" THEN
        CommercialOfficeItems \o FloorRequirements(floor_level)
    ELSE IF property_type = "school" THEN
        SchoolItems
    ELSE IF property_type = "hospital" THEN
        HospitalItems
    ELSE << >>

get_applicable_compliance_items(property_type, ownership_type, floor_level) ==
    IF property_type = "freestanding_house" THEN
        FreestandingHouseItems
    ELSE IF property_type \in {"sectional_title_apartment", "sectional_title_townhouse"} THEN
        SectionalTitleBase \o FloorRequirements(floor_level)
    ELSE IF property_type = "commercial_office" THEN
        CommercialOfficeItems
    ELSE IF property_type = "school" THEN
        SchoolItems
    ELSE IF property_type = "hospital" THEN
        HospitalItems
    ELSE << >>

\* the rule list of a stored property
RequiredItems(property_obj) ==
    get_applicable_compliance_items(property_obj.property_type,
                                    property_obj.ownership_type,
                                    property_obj.floor_level)

(***************************************************************************)
(* calculate_documentation_score                                           *)
(*                                                                         *)
(* The score is the float (compliant_count / len(required_items)) * 100.   *)
(* Every non-empty rule list has 4 or 5 entries, and for these divisors    *)
(* the float result is the exact integer 100 * count / len (25s and 20s),  *)
(* so the score is modelled as that integer.                               *)
(***************************************************************************)
\* ComplianceItem.query.filter_by(property_id=..., is_compliant=True).count()
CompliantCount(items, property_id) ==
    Cardinality({ i \in DOMAIN items :
                    /\ items[i].property_id = property_id
                    /\ items[i].is_compliant })

\* Python's a / b: the quotient, or ZeroDivisionError raised when b is 0
TrueDivide(a, b) ==
    IF b = 0 THEN [raised |-> TRUE, value |-> 0]
    ELSE [raised |-> FALSE, value |-> a \div b]

\* a variant that divides by the number of persisted rows, as the read
\* endpoint's breakdown does
calculate_documentation_score_per_row(props, items, property_id) ==
    IF property_id \notin DOMAIN props THEN
        [ret |-> 0, raised |-> FALSE, properties |-> props]
    ELSE
        LET required_items == RequiredItems(props[property_id])
            compliant_count == CompliantCount(items, property_id)
            total_items == Cardinality({ i \in DOMAIN items :
                                            items[i].property_id = property_id })
            score == IF total_items > 0
                     THEN (compliant_count * 100) \div total_items ELSE 0
        IN  IF required_items = << >> THEN
                [ret |-> 100, raised |-> FALSE, properties |-> props]
            ELSE
                [ret |-> score, raised |-> FALSE,
                 properties |->
                    [props EXCEPT ![property_id].documentation_score = score]]

\* a variant that divides by the number of individually-responsible requirements
calculate_documentation_score_individual(props, items, property_id) ==
    IF property_id \notin DOMAIN props THEN
        [ret |-> 0, raised |-> FALSE, properties |-> props]
    ELSE
        LET required_items == RequiredItems(props[property_id])
            compliant_count == CompliantCount(items, property_id)
            individual == SelectSeq(required_items,
                                    LAMBDA r : r.individual_responsibility)
            score == (compliant_count * 100) \div Len(individual)
        IN  IF required_items = << >> THEN
                [ret |-> 100, raised |-> FALSE, properties |-> props]
            ELSE
                [ret |-> score, raised |-> FALSE,
                 properties |->
                    [props EXCEPT ![property_id].documentation_score = score]]

\* a variant that answers an empty rule list like a missing property, with 0
calculate_documentation_score_empty_zero(props, items, property_id) ==
    IF property_id \notin DOMAIN props THEN
        [ret |-> 0, raised |-> FALSE, properties |-> props]
    ELSE
        LET required_items == RequiredItems(props[property_id])
            compliant_count == CompliantCount(items, property_id)
            score == (compliant_count * 100) \div Len(required_items)
        IN  IF required_items = << >> THEN
                [ret |-> 0, raised |-> FALSE, properties |-> props]
            ELSE
                [ret |-> score, raised |-> FALSE,
                 properties |->
                    [props EXCEPT ![property_id].documentation_score = score]]

\* a variant that averages the new score with the stored one
calculate_documentation_score_smoothed(props, items, property_id) ==
    IF property_id \notin DOMAIN props THEN
        [ret |-> 0, raised |-> FALSE, properties |-> props]
    ELSE
        LET required_items == RequiredItems(props[property_id])
            compliant_count == CompliantCount(items, property_id)
            score == (props[property_id].documentation_score
                        + (compliant_count * 100) \div Len(required_items)) \div 2
        IN  IF required_items = << >> THEN
                [ret |-> 100, raised |-> FALSE, properties |-> props]
            ELSE
                [ret |-> score, raised |-> FALSE,
                 properties |->
                    [props EXCEPT ![property_id].documentation_score = score]]

\* a variant that scores 0 while the property has a gap row not yet resolved
calculate_documentation_score_open_gaps(props, items, property_id) ==
    IF property_id \notin DOMAIN props THEN
        [ret |-> 0, raised |-> FALSE, properties |-> props]
    ELSE
        LET required_items == RequiredItems(props[property_id])
            compliant_count == CompliantCount(items, property_id)
            quotient == TrueDivide(compliant_count * 100, Len(required_items))
            open_gaps == { g \in DOMAIN documentation_gaps :
                            /\ documentation_gaps[g].property_id = property_id
                            /\ ~documentation_gaps[g].is_resolved }
            score == IF open_gaps # {} THEN 0 ELSE quotient.value
        IN  IF required_items = << >> THEN
                [ret |-> 100, raised |-> FALSE, properties |-> props]
            ELSE
                [ret |-> score, raised |-> FALSE,
                 properties |-> [props EXCEPT ![property_id].documentation_score = score]]

\* a variant that stores the 100 of an empty rule list before returning it
calculate_documentation_score_stores_full(props, items, property_id) ==
    IF property_id \notin DOMAIN props THEN
        [ret |-> 0, raised |-> FALSE, properties |-> props]
    ELSE
        LET required_items == RequiredItems(props[property_id])
            compliant_count == CompliantCount(items, property_id)
            quotient == TrueDivide(compliant_count * 100, Len(required_items))
            score == IF required_items = << >> THEN 100 ELSE quotient.value
        IN  [ret |-> score, raised |-> FALSE,
             properties |->
                [props EXCEPT ![property_id].documentation_score = score]]

\* a variant without the early return for an empty rule list
calculate_documentation_score_unguarded(props, items, property_id) ==
    IF property_id \notin DOMAIN props THEN
        [ret |-> 0, raised |-> FALSE, properties |-> props]
    ELSE
        LET required_items == RequiredItems(props[property_id])
            compliant_count == CompliantCount(items, property_id)
            quotient == TrueDivide(compliant_count * 100, Len(required_items))
            score == quotient.value
        IN  IF quotient.raised THEN
                [ret |-> 0, raised |-> TRUE, properties |-> props]
            ELSE
                [ret |-> score, raised |-> FALSE,
                 properties |->
                    [props EXCEPT ![property_id].documentation_score = score]]

\* the value returned, and the table enhanced_properties after the commit;
\* raised tells that the call ended in an exception instead (then ret is void)
calculate_documentation_score(props, items, property_id) ==
    IF property_id \notin DOMAIN props THEN
        [ret |-> 0, raised |-> FALSE, properties |-> props]
    ELSE
        LET required_items == RequiredItems(props[property_id])
            compliant_count == CompliantCount(items, property_id)
            quotient == TrueDivide(compliant_count * 100, Len(required_items))
            score == quotient.value
        IN  IF required_items = << >> THEN
                [ret |-> 100, raised |-> FALSE, properties |-> props]
            ELSE IF quotient.raised THEN
                [ret |-> 0, raised |-> TRUE, properties |-> props]
            ELSE
                [ret |-> score, raised |-> FALSE,
                 properties |->
                    [props EXCEPT ![property_id].documentation_score = score]]

(***************************************************************************)
(* identify_documentation_gaps                                             *)
(***************************************************************************)
\* [item.name for item in ComplianceItem.query.filter_by(property_id=...).all()]
ExistingNames(items, property_id) ==
    { items[i].name : i \in { j \in DOMAIN items : items[j].property_id = property_id } }

\* a variant of NewGap with the two severities exchanged
NewGapSeveritySwapped(property_id, required_item) ==
    [property_id |-> property_id,
     gap_type    |-> "missing_compliance",
     description |-> "Missing " \o required_item.name \o " for "
                        \o required_item.category \o " compliance",
     severity    |-> IF required_item.individual_responsibility THEN "medium" ELSE "high",
     is_resolved |-> FALSE]

\* the PropertyDocumentationGap built for one missing requirement
NewGap(property_id, required_item) ==
    [property_id |-> property_id,
     gap_type    |-> "missing_compliance",
     description |-> "Missing " \o required_item.name \o " for "
                        \o required_item.category \o " compliance",
     severity    |-> IF required_item.individual_responsibility THEN "high" ELSE "medium",
     is_resolved |-> FALSE]

\* a variant of MissingItems that takes only compliant rows as existing
MissingItemsCompliantOnly(props, items, property_id) ==
    LET existing_names ==
            { items[i].name : i \in { j \in DOMAIN items :
                                        /\ items[j].property_id = property_id
                                        /\ items[j].is_compliant } }
    IN  SelectSeq(RequiredItems(props[property_id]),
                  LAMBDA required_item : required_item.name \notin existing_names)

\* the requirements of the property no ComplianceItem row is named after
MissingItems(props, items, property_id) ==
    LET existing_names == ExistingNames(items, property_id)
    IN  SelectSeq(RequiredItems(props[property_id]),
                  LAMBDA required_item : required_item.name \notin existing_names)

\* a variant that skips a requirement some gap row of the property already describes
identify_documentation_gaps_dedup(props, items, gaps, property_id) ==
    IF property_id \notin DOMAIN props THEN
        [ret |-> << >>, documentation_gaps |-> gaps]
    ELSE
        LET recorded == { gaps[i].description :
                            i \in { j \in DOMAIN gaps : gaps[j].property_id = property_id } }
            missing == SelectSeq(MissingItems(props, items, property_id),
                                 LAMBDA r : NewGap(property_id, r).description \notin recorded)
            created == [k \in 1..Len(missing) |-> NewGap(property_id, missing[k])]
        IN  [ret |-> [k \in 1..Len(missing) |-> Len(gaps) + k],
             documentation_gaps |-> gaps \o created]

\* the list returned (the new rows, by primary key) and the gap table after the commit
identify_documentation_gaps(props, items, gaps, property_id) ==
    IF property_id \notin DOMAIN props THEN
        [ret |-> << >>, documentation_gaps |-> gaps]
    ELSE
        LET missing == MissingItems(props, items, property_id)
            created == [k \in 1..Len(missing) |-> NewGap(property_id, missing[k])]
        IN  [ret |-> [k \in 1..Len(missing) |-> Len(gaps) + k],
             documentation_gaps |-> gaps \o created]

(***************************************************************************)
(* Direct calls of the two functions (SpecScore, SpecGaps).                *)
(***************************************************************************)
\* last.prev holds the previous result when the call before was the same call
CallCalculateDocumentationScore(property_id) ==
    LET r == calculate_documentation_score(properties, compliance_items, property_id)
    IN  /\ properties' = r.properties
        /\ last' = [op |-> "calculate_documentation_score",
                    property_id |-> property_id,
                    ret |-> r.ret,
                    raised |-> r.raised,
                    prev |-> IF /\ last.op = "calculate_documentation_score"
                                /\ last.property_id = property_id
                             THEN << last.ret >> ELSE << >>]
        /\ UNCHANGED <<compliance_items, documentation_gaps>>

CallIdentifyDocumentationGaps(property_id) ==
    LET r == identify_documentation_gaps(properties, compliance_items,
                                         documentation_gaps, property_id)
    IN  /\ Len(documentation_gaps) <= MaxPriorGaps
        /\ documentation_gaps' = r.documentation_gaps
        /\ last' = [op |-> "identify_documentation_gaps",
                    property_id |-> property_id,
                    ret |-> r.ret]
        /\ UNCHANGED <<properties, compliance_items>>

(***************************************************************************)
(* The HTTP handlers.  Each action is one request run to completion; the   *)
(* field calls of last lists the calls of calculate_documentation_score and *)
(* identify_documentation_gaps the handler made, in the order it made them. *)
(***************************************************************************)
\* NewComplianceItem with the row named after the requirement's category
NewComplianceItemByCategory(property_id, req) ==
    [property_id |-> property_id,
     name |-> req.category,
     category |-> req.category,
     is_individual_responsibility |-> req.individual_responsibility,
     responsible_party |-> IF req.individual_responsibility
                           THEN "Owner" ELSE "Body Corporate",
     is_required |-> TRUE,
     is_compliant |-> FALSE]

\* NewComplianceItem with the owner as responsible party of every item
NewComplianceItemOwner(property_id, req) ==
    [property_id |-> property_id,
     name |-> req.name,
     category |-> req.category,
     is_individual_responsibility |-> req.individual_responsibility,
     responsible_party |-> "Owner",
     is_required |-> TRUE,
     is_compliant |-> FALSE]

\* the ComplianceItem the creation handler builds for one requirement
NewComplianceItem(property_id, req) ==
    [property_id |-> property_id,
     name |-> req.name,
     category |-> req.category,
     is_individual_responsibility |-> req.individual_responsibility,
     responsible_party |-> IF req.individual_responsibility
                           THEN "Owner" ELSE "Body Corporate",
     is_required |-> TRUE,
     is_compliant |-> FALSE]

\* the EnhancedProperty row as inserted: documentation_score has default 0.0
NewProperty(data) ==
    [property_type |-> data.property_type,
     ownership_type |-> data.ownership_type,
     floor_level |-> data.floor_level,
     documentation_score |-> 0]

\* PropertyType(...), OwnershipType(...) and FloorLevel(...) accept the value
ValidCreateData(data) ==
    /\ data.property_type \in PropertyType
    /\ data.ownership_type \in OwnershipType
    /\ data.floor_level \in FloorLevelOrNone

\* create_enhanced_property with no row for the last requirement of the list
create_enhanced_property_short(data) ==
    IF ~ValidCreateData(data) THEN
        /\ last' = [op |-> "create_enhanced_property", status |-> 400,
                    calls |-> << >>]
        /\ UNCHANGED <<properties, compliance_items, documentation_gaps>>
    ELSE
        LET property_id == Len(properties) + 1
            props1 == Append(properties, NewProperty(data))
            compliance_requirements == RequiredItems(props1[property_id])
            items1 == compliance_items \o
                        [k \in 1..(Len(compliance_requirements) - 1) |->
                            NewComplianceItem(property_id, compliance_requirements[k])]
            c == calculate_documentation_score(props1, items1, property_id)
        IN  /\ properties' = c.properties
            /\ compliance_items' = items1
            /\ UNCHANGED documentation_gaps
            /\ last' = [op |-> "create_enhanced_property",
                        status |-> 201,
                        property_id |-> property_id,
                        compliance_items_created |-> Len(items1) - Len(compliance_items),
                        calls |-> << "identify_documentation_gaps",
                                     "calculate_documentation_score" >>]

\* create_enhanced_property with gap detection run before the items are added
create_enhanced_property_gaps_first(data) ==
    IF ~ValidCreateData(data) THEN
        /\ last' = [op |-> "create_enhanced_property", status |-> 400,
                    calls |-> << >>]
        /\ UNCHANGED <<properties, compliance_items, documentation_gaps>>
    ELSE
        LET property_id == Len(properties) + 1
            props1 == Append(properties, NewProperty(data))
            compliance_requirements == RequiredItems(props1[property_id])
            items1 == compliance_items \o
                        [k \in 1..Len(compliance_requirements) |->
                            NewComplianceItem(property_id, compliance_requirements[k])]
            g == identify_documentation_gaps(props1, compliance_items,
                                             documentation_gaps, property_id)
            c == calculate_documentation_score(props1, items1, property_id)
        IN  /\ properties' = c.properties
            /\ compliance_items' = items1
            /\ documentation_gaps' = g.documentation_gaps
            /\ last' = [op |-> "create_enhanced_property",
                        status |-> 201,
                        property_id |-> property_id,
                        compliance_items_created |-> Len(compliance_requirements),
                        calls |-> << "identify_documentation_gaps",
                                     "calculate_documentation_score" >>]

\* POST /enhanced-properties.  The session autoflushes before each query, so
\* identify_documentation_gaps reads the compliance items added just before.
create_enhanced_property(data) ==
    IF ~ValidCreateData(data) THEN
        /\ last' = [op |-> "create_enhanced_property", status |-> 400,
                    calls |-> << >>]
        /\ UNCHANGED <<properties, compliance_items, documentation_gaps>>
    ELSE
        LET property_id == Len(properties) + 1
            props1 == Append(properties, NewProperty(data))
            compliance_requirements == RequiredItems(props1[property_id])
            items1 == compliance_items \o
                        [k \in 1..Len(compliance_requirements) |->
                            NewComplianceItem(property_id, compliance_requirements[k])]
            g == identify_documentation_gaps(props1, items1, documentation_gaps, property_id)
            c == calculate_documentation_score(props1, items1, property_id)
        IN  /\ properties' = c.properties
            /\ compliance_items' = items1
            /\ documentation_gaps' = g.documentation_gaps
            /\ last' = [op |-> "create_enhanced_property",
                        status |-> 201,
                        property_id |-> property_id,
                        compliance_items_created |-> Len(compliance_requirements),
                        calls |-> << "identify_documentation_gaps",
                                     "calculate_documentation_score" >>]

\* update_compliance_item replacing the row by a new one at the end of the table
update_compliance_item_reinsert(property_id, compliance_id, data) ==
    IF ~(/\ compliance_id \in DOMAIN compliance_items
         /\ compliance_items[compliance_id].property_id = property_id) THEN
        /\ last' = [op |-> "update_compliance_item", status |-> 404,
                    property_id |-> property_id, calls |-> << >>]
        /\ UNCHANGED <<properties, compliance_items, documentation_gaps>>
    ELSE
        LET row == IF "is_compliant" \in DOMAIN data
                   THEN [compliance_items[compliance_id] EXCEPT
                            !.is_compliant = data.is_compliant]
                   ELSE compliance_items[compliance_id]
            items1 == Append(SelectSeq(compliance_items,
                                       LAMBDA r : r # compliance_items[compliance_id]),
                             row)
            c == calculate_documentation_score(properties, items1, property_id)
        IN  /\ compliance_items' = items1
            /\ properties' = c.properties
            /\ last' = [op |-> "update_compliance_item", status |-> 200,
                        property_id |-> property_id,
                        new_documentation_score |-> c.ret,
                        calls |-> << "calculate_documentation_score" >>]
            /\ UNCHANGED documentation_gaps

\* update_compliance_item with the score computed before the row is changed
update_compliance_item_score_first(property_id, compliance_id, data) ==
    IF ~(/\ compliance_id \in DOMAIN compliance_items
         /\ compliance_items[compliance_id].property_id = property_id) THEN
        /\ last' = [op |-> "update_compliance_item", status |-> 404,
                    property_id |-> property_id, calls |-> << >>]
        /\ UNCHANGED <<properties, compliance_items, documentation_gaps>>
    ELSE
        LET items1 == IF "is_compliant" \in DOMAIN data
                      THEN [compliance_items EXCEPT
                                ![compliance_id].is_compliant = data.is_compliant]
                      ELSE compliance_items
            c == calculate_documentation_score(properties, compliance_items, property_id)
        IN  /\ compliance_items' = items1
            /\ properties' = c.properties
            /\ last' = [op |-> "update_compliance_item", status |-> 200,
                        property_id |-> property_id,
                        new_documentation_score |-> c.ret,
                        calls |-> << "calculate_documentation_score" >>]
            /\ UNCHANGED documentation_gaps

\* PUT /enhanced-properties/<property_id>/compliance/<compliance_id>
update_compliance_item(property_id, compliance_id, data) ==
    IF ~(/\ compliance_id \in DOMAIN compliance_items
         /\ compliance_items[compliance_id].property_id = property_id) THEN
        /\ last' = [op |-> "update_compliance_item", status |-> 404,
                    property_id |-> property_id, calls |-> << >>]
        /\ UNCHANGED <<properties, compliance_items, documentation_gaps>>
    ELSE
        LET items1 == IF "is_compliant" \in DOMAIN data
                      THEN [compliance_items EXCEPT
                                ![compliance_id].is_compliant = data.is_compliant]
                      ELSE compliance_items
            c == calculate_documentation_score(properties, items1, property_id)
        IN  /\ compliance_items' = items1
            /\ properties' = c.properties
            /\ last' = [op |-> "update_compliance_item", status |-> 200,
                        property_id |-> property_id,
                        new_documentation_score |-> c.ret,
                        calls |-> << "calculate_documentation_score" >>]
            /\ UNCHANGED documentation_gaps

\* resolve_documentation_gap finding the gap by its id alone
resolve_documentation_gap_any_property(property_id, gap_id) ==
    IF gap_id \notin DOMAIN documentation_gaps THEN
        /\ last' = [op |-> "resolve_documentation_gap", status |-> 404,
                    property_id |-> property_id, calls |-> << >>]
        /\ UNCHANGED <<properties, compliance_items, documentation_gaps>>
    ELSE
        LET c == calculate_documentation_score(properties, compliance_items, property_id)
        IN  /\ documentation_gaps' =
                    [documentation_gaps EXCEPT ![gap_id].is_resolved = TRUE]
            /\ properties' = c.properties
            /\ last' = [op |-> "resolve_documentation_gap", status |-> 200,
                        property_id |-> property_id,
                        new_documentation_score |-> c.ret,
                        calls |-> << "calculate_documentation_score" >>]
            /\ UNCHANGED compliance_items

\* resolve_documentation_gap flipping is_resolved
resolve_documentation_gap_toggle(property_id, gap_id) ==
    IF ~(/\ gap_id \in DOMAIN documentation_gaps
         /\ documentation_gaps[gap_id].property_id = property_id) THEN
        /\ last' = [op |-> "resolve_documentation_gap", status |-> 404,
                    property_id |-> property_id, calls |-> << >>]
        /\ UNCHANGED <<properties, compliance_items, documentation_gaps>>
    ELSE
        LET c == calculate_documentation_score(properties, compliance_items, property_id)
        IN  /\ documentation_gaps' =
                    [documentation_gaps EXCEPT
                        ![gap_id].is_resolved = ~documentation_gaps[gap_id].is_resolved]
            /\ properties' = c.properties
            /\ last' = [op |-> "resolve_documentation_gap", status |-> 200,
                        property_id |-> property_id,
                        new_documentation_score |-> c.ret,
                        calls |-> << "calculate_documentation_score" >>]
            /\ UNCHANGED compliance_items

\* resolve_documentation_gap resolving every gap row of the property
resolve_documentation_gap_all(property_id, gap_id) ==
    IF ~(/\ gap_id \in DOMAIN documentation_gaps
         /\ documentation_gaps[gap_id].property_id = property_id) THEN
        /\ last' = [op |-> "resolve_documentation_gap", status |-> 404,
                    property_id |-> property_id, calls |-> << >>]
        /\ UNCHANGED <<properties, compliance_items, documentation_gaps>>
    ELSE
        LET c == calculate_documentation_score(properties, compliance_items, property_id)
        IN  /\ documentation_gaps' =
                    [i \in DOMAIN documentation_gaps |->
                        IF documentation_gaps[i].property_id = property_id
                        THEN [documentation_gaps[i] EXCEPT !.is_resolved = TRUE]
                        ELSE documentation_gaps[i]]
            /\ properties' = c.properties
            /\ last' = [op |-> "resolve_documentation_gap", status |-> 200,
                        property_id |-> property_id,
                        new_documentation_score |-> c.ret,
                        calls |-> << "calculate_documentation_score" >>]
            /\ UNCHANGED compliance_items

\* PUT /enhanced-properties/<property_id>/gaps/resolve/<gap_id>
resolve_documentation_gap(property_id, gap_id) ==
    IF ~(/\ gap_id \in DOMAIN documentation_gaps
         /\ documentation_gaps[gap_id].property_id = property_id) THEN
        /\ last' = [op |-> "resolve_documentation_gap", status |-> 404,
                    property_id |-> property_id, calls |-> << >>]
        /\ UNCHANGED <<properties, compliance_items, documentation_gaps>>
    ELSE
        LET c == calculate_documentation_score(properties, compliance_items, property_id)
        IN  /\ documentation_gaps' =
                    [documentation_gaps EXCEPT ![gap_id].is_resolved = TRUE]
            /\ properties' = c.properties
            /\ last' = [op |-> "resolve_documentation_gap", status |-> 200,
                        property_id |-> property_id,
                        new_documentation_score |-> c.ret,
                        calls |-> << "calculate_documentation_score" >>]
            /\ UNCHANGED compliance_items

\* the rows of a table that belong to a property
RowsOf(table, property_id) ==
    { i \in DOMAIN table : table[i].property_id = property_id }

\* the greatest common divisor of two naturals, not both 0
RECURSIVE Gcd(_, _)
Gcd(a, b) == IF b = 0 THEN a ELSE Gcd(b, a % b)

\* the quotient num / den of two counts as a fraction in lowest terms; the
\* float the code computes is the nearest double to this number
Fraction(num, den) ==
    [num |-> num \div Gcd(num, den), den |-> den \div Gcd(num, den)]

\* (count / total * 100) if total > 0 else otherwise
Percentage(count, total, otherwise) ==
    IF total > 0 THEN Fraction(count * 100, total) ELSE Fraction(otherwise, 1)

\* get_documentation_score leaving the column default as the stored score
get_documentation_score_resets(property_id) ==
    IF property_id \notin DOMAIN properties THEN
        /\ last' = [op |-> "get_documentation_score", status |-> 404,
                    property_id |-> property_id, calls |-> << >>]
        /\ UNCHANGED <<properties, compliance_items, documentation_gaps>>
    ELSE
        LET c == calculate_documentation_score(properties, compliance_items, property_id)
            total_items == Cardinality(RowsOf(compliance_items, property_id))
            compliant_items == CompliantCount(compliance_items, property_id)
            total_gaps == Cardinality(RowsOf(documentation_gaps, property_id))
            resolved_gaps ==
                Cardinality({ i \in RowsOf(documentation_gaps, property_id) :
                                documentation_gaps[i].is_resolved })
        IN  /\ properties' = [c.properties EXCEPT ![property_id].documentation_score = 0]
            /\ last' = [op |-> "get_documentation_score", status |-> 200,
                        property_id |-> property_id,
                        documentation_score |-> c.ret,
                        calls |-> << "calculate_documentation_score" >>,
                        total_items |-> total_items,
                        compliant_items |-> compliant_items,
                        compliance_percentage |->
                            Percentage(compliant_items, total_items, 0),
                        total_gaps |-> total_gaps,
                        resolved_gaps |-> resolved_gaps,
                        resolution_percentage |->
                            Percentage(resolved_gaps, total_gaps, 100)]
            /\ UNCHANGED <<compliance_items, documentation_gaps>>

\* get_documentation_score with the rule list's length under compliant_items
get_documentation_score_over_rules(property_id) ==
    IF property_id \notin DOMAIN properties THEN
        /\ last' = [op |-> "get_documentation_score", status |-> 404,
                    property_id |-> property_id, calls |-> << >>]
        /\ UNCHANGED <<properties, compliance_items, documentation_gaps>>
    ELSE
        LET c == calculate_documentation_score(properties, compliance_items, property_id)
            total_items == Cardinality(RowsOf(compliance_items, property_id))
            compliant_items == CompliantCount(compliance_items, property_id)
            total_gaps == Cardinality(RowsOf(documentation_gaps, property_id))
            resolved_gaps ==
                Cardinality({ i \in RowsOf(documentation_gaps, property_id) :
                                documentation_gaps[i].is_resolved })
        IN  /\ properties' = c.properties
            /\ last' = [op |-> "get_documentation_score", status |-> 200,
                        property_id |-> property_id,
                        documentation_score |-> c.ret,
                        calls |-> << "calculate_documentation_score" >>,
                        total_items |-> total_items,
                        compliant_items |-> compliant_items,
                        compliance_percentage |->
                            Percentage(compliant_items,
                                       Len(RequiredItems(properties[property_id])), 0),
                        total_gaps |-> total_gaps,
                        resolved_gaps |-> resolved_gaps,
                        resolution_percentage |->
                            Percentage(resolved_gaps, total_gaps, 100)]
            /\ UNCHANGED <<compliance_items, documentation_gaps>>

\* GET /enhanced-properties/<property_id>/documentation-score
get_documentation_score(property_id) ==
    IF property_id \notin DOMAIN properties THEN
        /\ last' = [op |-> "get_documentation_score", status |-> 404,
                    property_id |-> property_id, calls |-> << >>]
        /\ UNCHANGED <<properties, compliance_items, documentation_gaps>>
    ELSE
        LET c == calculate_documentation_score(properties, compliance_items, property_id)
            total_items == Cardinality(RowsOf(compliance_items, property_id))
            compliant_items == CompliantCount(compliance_items, property_id)
            total_gaps == Cardinality(RowsOf(documentation_gaps, property_id))
            resolved_gaps ==
                Cardinality({ i \in RowsOf(documentation_gaps, property_id) :
                                documentation_gaps[i].is_resolved })
        IN  /\ properties' = c.properties
            /\ last' = [op |-> "get_documentation_score", status |-> 200,
                        property_id |-> property_id,
                        documentation_score |-> c.ret,
                        calls |-> << "calculate_documentation_score" >>,
                        total_items |-> total_items,
                        compliant_items |-> compliant_items,
                        compliance_percentage |->
                            Percentage(compliant_items, total_items, 0),
                        total_gaps |-> total_gaps,
                        resolved_gaps |-> resolved_gaps,
                        resolution_percentage |->
                            Percentage(resolved_gaps, total_gaps, 100)]
            /\ UNCHANGED <<compliance_items, documentation_gaps>>

(***************************************************************************)
(* The inputs of the requests.                                             *)
(***************************************************************************)
\* a value none of the three enumerations accepts
BadEnumValue == "castle"

CreateBodies ==
    [property_type : PropertyType \cup {BadEnumValue},
     ownership_type : OwnershipType,
     floor_level : FloorLevelOrNone]

\* JSON bodies of the update request: with the key is_compliant, or without it
UpdateBodies ==
    { [is_compliant |-> TRUE], [is_compliant |-> FALSE],
      [certificate_number |-> "COC-1"] }

\* ids that exist, and one that does not
PropertyIds == 1..(Len(properties) + 1)
ComplianceIds == 1..(Len(compliance_items) + 1)
GapIds == 1..(Len(documentation_gaps) + 1)

(***************************************************************************)
(* Spec: the HTTP handlers from the empty database.                        *)
(***************************************************************************)
Init ==
    /\ properties = << >>
    /\ compliance_items = << >>
    /\ documentation_gaps = << >>
    /\ last = [op |-> "none"]
    /\ requests = << >>

CreateRequest ==
    /\ Len(properties) < MaxProps
    /\ \E data \in CreateBodies : create_enhanced_property(data)
    /\ UNCHANGED requests

UpdateRequest ==
    /\ \E property_id \in PropertyIds, compliance_id \in ComplianceIds,
          data \in UpdateBodies :
            update_compliance_item(property_id, compliance_id, data)
    /\ UNCHANGED requests

ResolveRequest ==
    /\ \E property_id \in PropertyIds, gap_id \in GapIds :
            resolve_documentation_gap(property_id, gap_id)
    /\ UNCHANGED requests

ScoreRequest ==
    /\ \E property_id \in PropertyIds : get_documentation_score(property_id)
    /\ UNCHANGED requests

Next == CreateRequest \/ UpdateRequest \/ ResolveRequest \/ ScoreRequest

Spec == Init /\ [][Next]_vars

(***************************************************************************)
(* SpecScore and SpecGaps: the two functions on a property whose           *)
(* ComplianceItem rows are arbitrary.  The functions take the database as  *)
(* they find it, so the initial states draw its contents: one property of  *)
(* any type and floor level, any subset of its required rows with any      *)
(* is_compliant flags, and (SpecScore) stray rows beyond the rule table.   *)
(***************************************************************************)
\* what the database holds for one requirement of the property
Presence == {"absent", "open", "compliant"}

\* the rows kept of the rule list, in rule order
KeptRows(reqs, keep) ==
    LET kept == SelectSeq([i \in 1..Len(reqs) |-> i], LAMBDA i : keep[i] # "absent")
    IN  [k \in 1..Len(kept) |->
            [NewComplianceItem(1, reqs[kept[k]]) EXCEPT
                !.is_compliant = (keep[kept[k]] = "compliant")]]

\* a stray row: a house's certificate, whatever the property's type
StrayRow(compliant) ==
    [NewComplianceItem(1, Req("Electrical COC", "electrical", TRUE)) EXCEPT
        !.is_compliant = compliant]

\* the is_compliant flags of up to MaxExtra stray rows
StrayRows ==
    UNION { [1..n -> BOOLEAN] : n \in 0..MaxExtra }

InitRows(ownership_types, strays) ==
    \E data \in [property_type : PropertyType,
                 ownership_type : ownership_types,
                 floor_level : FloorLevelOrNone] :
        LET reqs == RequiredItems(NewProperty(data))
        IN  \E keep \in [1..Len(reqs) -> Presence], stray \in strays :
                /\ properties = << NewProperty(data) >>
                /\ compliance_items =
                        KeptRows(reqs, keep) \o
                        [k \in 1..Len(stray) |-> StrayRow(stray[k])]
                /\ documentation_gaps = << >>
                /\ last = [op |-> "none"]
                /\ requests = << >>

InitScore == InitRows(OwnershipType, StrayRows)

ScoreCall ==
    /\ \E property_id \in PropertyIds : CallCalculateDocumentationScore(property_id)
    /\ UNCHANGED requests

NextScore == ScoreCall

SpecScore == InitScore /\ [][NextScore]_vars

\* the ownership type of SpecGaps's property (the other specifications take them all)
GapsOwnershipType == {"individual"}

InitGaps == InitRows(GapsOwnershipType, {<< >>})

GapsCall ==
    /\ \E property_id \in PropertyIds : CallIdentifyDocumentationGaps(property_id)
    /\ UNCHANGED requests

NextGaps == GapsCall \/ ResolveRequest

SpecGaps == InitGaps /\ [][NextGaps]_vars

(***************************************************************************)
(* SpecRows: the update, resolve and read handlers and gap detection on a  *)
(* property whose ComplianceItem rows are a subset of its rule list, so    *)
(* that gap rows exist and the number of rows differs from the number of   *)
(* requirements.                                                           *)
(***************************************************************************)
InitRowsSpec == InitRows(GapsOwnershipType, {<< >>})

NextRows == GapsCall \/ ResolveRequest \/ ScoreRequest \/ UpdateRequest

SpecRows == InitRowsSpec /\ [][NextRows]_vars

(***************************************************************************)
(* SpecRules: the rule table applied to every classification.              *)
(***************************************************************************)
CallGetApplicableComplianceItems(property_type, ownership_type, floor_level) ==
    /\ last' = [op |-> "get_applicable_compliance_items",
                property_type |-> property_type,
                ownership_type |-> ownership_type,
                floor_level |-> floor_level,
                ret |-> get_applicable_compliance_items(property_type, ownership_type,
                                                        floor_level)]
    /\ UNCHANGED <<properties, compliance_items, documentation_gaps>>

NextRules ==
    /\ \E property_type \in PropertyType, ownership_type \in OwnershipType,
          floor_level \in FloorLevelOrNone :
            CallGetApplicableComplianceItems(property_type, ownership_type, floor_level)
    /\ UNCHANGED requests

SpecRules == Init /\ [][NextRules]_vars

(***************************************************************************)
(* SpecCore: the three functions called on one stored property of any      *)
(* classification, with any subset of its rule list's rows and, for an     *)
(* individually owned property, stray rows.                                *)
(***************************************************************************)
InitCore ==
    \/ InitRows(OwnershipType, {<< >>})
    \/ InitRows(GapsOwnershipType, StrayRows)

\* the rule table called as the two functions call it, on a stored property
StoredRulesCall ==
    /\ \E property_id \in DOMAIN properties :
            CallGetApplicableComplianceItems(properties[property_id].property_type,
                                             properties[property_id].ownership_type,
                                             properties[property_id].floor_level)
    /\ UNCHANGED requests

NextCore == StoredRulesCall \/ ScoreCall \/ GapsCall

SpecCore == InitCore /\ [][NextCore]_vars

(***************************************************************************)
(* SpecRace: requests in flight together.  The handlers use no lock, and   *)
(* each request has its own session, so the statements of two requests     *)
(* interleave; a step is one request's next database statement or commit.  *)
(*                                                                         *)
(*   update_compliance_item   persist    lines 191-214: find the row, set  *)
(*                                       the fields, commit                *)
(*                            get        models 334-346: load the property *)
(*                            count      models 349-352: count the rows    *)
(*                            commit     models 355-361: assign, commit    *)
(*   get_documentation_score  load       line 347: load the property       *)
(*                            breakdown  lines 350-355: the four counts    *)
(*                            count, commit as above (the session already  *)
(*                            holds the property, so query.get reads it    *)
(*                            from the session and not from the database)  *)
(*                                                                         *)
(* On commit the session writes the attributes whose value differs from    *)
(* the one it loaded: assigning to documentation_score the value the       *)
(* request loaded sends no UPDATE, and the row stays as the database has   *)
(* it by then.                                                             *)
(***************************************************************************)
\* requests SpecRace lets arrive
MaxRequests == 2

\* the property types of SpecRace's property: one with a rule list, one without
RaceTypes == {"commercial_office", "vacant_land"}

\* what SpecRace's database holds for one requirement
RacePresence == {"absent", "open"}

\* a property as the creation handler stores it, with a subset of its rows
\* and the gaps gap detection records for the others
InitRace ==
    \E property_type \in RaceTypes :
        LET data == [property_type |-> property_type,
                     ownership_type |-> "individual",
                     floor_level |-> None]
            reqs == RequiredItems(NewProperty(data))
        IN  \E keep \in [1..Len(reqs) -> RacePresence] :
                /\ properties = << NewProperty(data) >>
                /\ compliance_items = KeptRows(reqs, keep)
                /\ documentation_gaps =
                        identify_documentation_gaps(properties, compliance_items,
                                                    << >>, 1).documentation_gaps
                /\ last = [op |-> "none"]
                /\ requests = << >>

\* a request in flight: pc is the step it takes next
NewRequest(op, pc, property_id) ==
    [op |-> op, pc |-> pc, property_id |-> property_id, status |-> 200,
     loaded_score |-> 0, total_items |-> 0, compliant_items |-> 0,
     total_gaps |-> 0, resolved_gaps |-> 0, compliant_count |-> 0, ret |-> 0]

\* UpdatePersist with the score of the rows written in the same commit
UpdatePersistWithScore(property_id, compliance_id, data) ==
    /\ Len(requests) < MaxRequests
    /\ IF ~(/\ compliance_id \in DOMAIN compliance_items
            /\ compliance_items[compliance_id].property_id = property_id) THEN
            /\ requests' = Append(requests,
                    [NewRequest("update_compliance_item", "done", property_id)
                        EXCEPT !.status = 404])
            /\ UNCHANGED <<compliance_items, properties>>
       ELSE
            /\ compliance_items' =
                    IF "is_compliant" \in DOMAIN data
                    THEN [compliance_items EXCEPT
                            ![compliance_id].is_compliant = data.is_compliant]
                    ELSE compliance_items
            /\ properties' =
                    calculate_documentation_score(properties, compliance_items',
                                                  property_id).properties
            /\ requests' = Append(requests,
                    NewRequest("update_compliance_item", "get", property_id))
    /\ UNCHANGED <<documentation_gaps, last>>

\* update_compliance_item, lines 191-214: first_or_404, the fields, the commit
UpdatePersist(property_id, compliance_id, data) ==
    /\ Len(requests) < MaxRequests
    /\ IF ~(/\ compliance_id \in DOMAIN compliance_items
            /\ compliance_items[compliance_id].property_id = property_id) THEN
            /\ requests' = Append(requests,
                    [NewRequest("update_compliance_item", "done", property_id)
                        EXCEPT !.status = 404])
            /\ UNCHANGED compliance_items
       ELSE
            /\ compliance_items' =
                    IF "is_compliant" \in DOMAIN data
                    THEN [compliance_items EXCEPT
                            ![compliance_id].is_compliant = data.is_compliant]
                    ELSE compliance_items
            /\ requests' = Append(requests,
                    NewRequest("update_compliance_item", "get", property_id))
    /\ UNCHANGED <<properties, documentation_gaps, last>>

\* get_documentation_score, line 347: get_or_404
ReadLoad(property_id) ==
    /\ Len(requests) < MaxRequests
    /\ IF property_id \notin DOMAIN properties THEN
            requests' = Append(requests,
                    [NewRequest("get_documentation_score", "done", property_id)
                        EXCEPT !.status = 404])
       ELSE
            requests' = Append(requests,
                    [NewRequest("get_documentation_score", "breakdown", property_id)
                        EXCEPT !.loaded_score =
                                    properties[property_id].documentation_score])
    /\ UNCHANGED <<properties, compliance_items, documentation_gaps, last>>

\* where calculate_documentation_score goes after the rule list: returned
\* with 100 for an empty list, else on to the count
AfterRules(request) ==
    IF RequiredItems(properties[request.property_id]) = << >>
    THEN [request EXCEPT !.pc = "done", !.ret = 100]
    ELSE [request EXCEPT !.pc = "count"]

\* get_documentation_score, lines 350-355, and the call of
\* calculate_documentation_score up to the rule list (no statement: the
\* property is in the session)
ReadBreakdown(r) ==
    /\ requests[r].pc = "breakdown"
    /\ LET property_id == requests[r].property_id
       IN  requests' = [requests EXCEPT ![r] =
                AfterRules([requests[r] EXCEPT
                    !.total_items = Cardinality(RowsOf(compliance_items, property_id)),
                    !.compliant_items = CompliantCount(compliance_items, property_id),
                    !.total_gaps = Cardinality(RowsOf(documentation_gaps, property_id)),
                    !.resolved_gaps =
                        Cardinality({ i \in RowsOf(documentation_gaps, property_id) :
                                        documentation_gaps[i].is_resolved })])]
    /\ UNCHANGED <<properties, compliance_items, documentation_gaps, last>>

\* calculate_documentation_score, lines 334-346: the property is loaded
ScoreGet(r) ==
    /\ requests[r].pc = "get"
    /\ requests' = [requests EXCEPT ![r] =
            AfterRules([requests[r] EXCEPT
                !.loaded_score = properties[requests[r].property_id].documentation_score])]
    /\ UNCHANGED <<properties, compliance_items, documentation_gaps, last>>

\* calculate_documentation_score, lines 349-352
ScoreCount(r) ==
    /\ requests[r].pc = "count"
    /\ requests' = [requests EXCEPT
            ![r].compliant_count = CompliantCount(compliance_items, requests[r].property_id),
            ![r].pc = "commit"]
    /\ UNCHANGED <<properties, compliance_items, documentation_gaps, last>>

\* ScoreCommit with the score assigned to every property record
ScoreCommitAllProperties(r) ==
    /\ requests[r].pc = "commit"
    /\ LET property_id == requests[r].property_id
           score == TrueDivide(requests[r].compliant_count * 100,
                               Len(RequiredItems(properties[property_id]))).value
       IN  /\ properties' =
                [p \in DOMAIN properties |->
                    [properties[p] EXCEPT !.documentation_score = score]]
           /\ requests' = [requests EXCEPT ![r].pc = "done", ![r].ret = score]
           /\ last' = [op |-> "calculate_documentation_score",
                       property_id |-> property_id,
                       ret |-> score,
                       raised |-> FALSE,
                       request |-> r,
                       wrote |-> TRUE]
    /\ UNCHANGED <<compliance_items, documentation_gaps>>

\* ScoreCommit with the UPDATE sent whatever value the request had loaded
ScoreCommitAlwaysWrites(r) ==
    /\ requests[r].pc = "commit"
    /\ LET property_id == requests[r].property_id
           score == TrueDivide(requests[r].compliant_count * 100,
                               Len(RequiredItems(properties[property_id]))).value
       IN  /\ properties' = [properties EXCEPT ![property_id].documentation_score = score]
           /\ requests' = [requests EXCEPT ![r].pc = "done", ![r].ret = score]
           /\ last' = [op |-> "calculate_documentation_score",
                       property_id |-> property_id,
                       ret |-> score,
                       raised |-> FALSE,
                       request |-> r,
                       wrote |-> TRUE]
    /\ UNCHANGED <<compliance_items, documentation_gaps>>

\* calculate_documentation_score, lines 355-361: the score, the assignment
\* and the commit, which sends the UPDATE if the value assigned differs from
\* the one loaded; last is the recalculation that committed last
ScoreCommit(r) ==
    /\ requests[r].pc = "commit"
    /\ LET property_id == requests[r].property_id
           score == TrueDivide(requests[r].compliant_count * 100,
                               Len(RequiredItems(properties[property_id]))).value
           wrote == score # requests[r].loaded_score
       IN  /\ properties' =
                IF wrote
                THEN [properties EXCEPT ![property_id].documentation_score = score]
                ELSE properties
           /\ requests' = [requests EXCEPT ![r].pc = "done", ![r].ret = score]
           /\ last' = [op |-> "calculate_documentation_score",
                       property_id |-> property_id,
                       ret |-> score,
                       raised |-> FALSE,
                       request |-> r,
                       wrote |-> wrote]
    /\ UNCHANGED <<compliance_items, documentation_gaps>>

UpdateArrives ==
    \E property_id \in PropertyIds, compliance_id \in ComplianceIds,
       data \in UpdateBodies :
        UpdatePersist(property_id, compliance_id, data)

ReadArrives ==
    \E property_id \in PropertyIds : ReadLoad(property_id)

BreakdownStep == \E r \in DOMAIN requests : ReadBreakdown(r)

GetStep == \E r \in DOMAIN requests : ScoreGet(r)

CountStep == \E r \in DOMAIN requests : ScoreCount(r)

CommitStep == \E r \in DOMAIN requests : ScoreCommit(r)

NextRace ==
    \/ UpdateArrives
    \/ ReadArrives
    \/ BreakdownStep
    \/ GetStep
    \/ CountStep
    \/ CommitStep

SpecRace == InitRace /\ [][NextRace]_vars

(***************************************************************************)
(* SpecPair: two stored properties.  Update and read requests run          *)
(* statement by statement as in SpecRace, for either property or for one   *)
(* that does not exist, with ids of rows of either, so the score function  *)
(* runs as the get, count and commit steps of a request; the resolve       *)
(* handler and gap detection are called in between.                        *)
(***************************************************************************)
\* the rows of a property of SpecPair: all of its rule list, or all but the
\* first
PairKeeps(reqs) ==
    { keep \in [1..Len(reqs) -> RacePresence] :
        \A k \in 1..Len(reqs) : keep[k] = "absent" => k = 1 }

PairData(property_type) ==
    [property_type |-> property_type,
     ownership_type |-> "individual",
     floor_level |-> None]

\* KeptRows for the property with the given id
KeptRowsOf(property_id, reqs, keep) ==
    [k \in 1..Len(KeptRows(reqs, keep)) |->
        [KeptRows(reqs, keep)[k] EXCEPT !.property_id = property_id]]

\* two properties as two creation requests store them, each with the gaps
\* gap detection records for a row that is not there
InitPair ==
    \E type1 \in RaceTypes, type2 \in {"commercial_office"} :
        LET reqs1 == RequiredItems(NewProperty(PairData(type1)))
            reqs2 == RequiredItems(NewProperty(PairData(type2)))
        IN  \E keep1 \in PairKeeps(reqs1), keep2 \in PairKeeps(reqs2) :
                /\ properties = << NewProperty(PairData(type1)),
                                   NewProperty(PairData(type2)) >>
                /\ compliance_items =
                        KeptRowsOf(1, reqs1, keep1) \o KeptRowsOf(2, reqs2, keep2)
                /\ documentation_gaps =
                        identify_documentation_gaps(
                            properties, compliance_items,
                            identify_documentation_gaps(properties, compliance_items,
                                                        << >>, 1).documentation_gaps,
                            2).documentation_gaps
                /\ last = [op |-> "none"]
                /\ requests = << >>

NextPair ==
    \/ UpdateArrives
    \/ ReadArrives
    \/ BreakdownStep
    \/ GetStep
    \/ CountStep
    \/ CommitStep
    \/ ResolveRequest
    \/ GapsCall

SpecPair == InitPair /\ [][NextPair]_vars

(***************************************************************************)
(* SpecCreate: the creation handler statement by statement, with the       *)
(* exceptions the try block of lines 32-95 catches.  The tables hold what  *)
(* is committed; what the request has added to its session and not yet     *)
(* committed is in its record.  Any statement that reaches the database    *)
(* can raise (a lost connection, a locked database); the handler then      *)
(* rolls the session back, which discards what is not committed, and       *)
(* answers 400.                                                            *)
(*                                                                         *)
(*   items   lines 58-76: the rule list, one ComplianceItem added each     *)
(*   gaps    line 79: identify_documentation_gaps, which commits the       *)
(*           session (models line 395), the new property and items in it   *)
(*   score   line 82: calculate_documentation_score, which commits         *)
(*   commit  line 84                                                       *)
(***************************************************************************)
\* lines 30-56: the property is built from the body, added and flushed; a
\* value the enumerations reject raises before anything is added
CreateBegin(data) ==
    /\ Len(requests) < MaxProps
    /\ IF ~ValidCreateData(data) THEN
            /\ requests' = Append(requests,
                    [op |-> "create_enhanced_property", pc |-> "done",
                     status |-> 400, property_id |-> 0,
                     before |-> [properties |-> Len(properties),
                                 compliance_items |-> Len(compliance_items),
                                 documentation_gaps |-> Len(documentation_gaps)],
                     property_obj |-> << >>, items |-> << >>])
            /\ last' = [op |-> "create_enhanced_property", status |-> 400,
                        calls |-> << >>, request |-> Len(requests) + 1]
       ELSE
            /\ requests' = Append(requests,
                    [op |-> "create_enhanced_property", pc |-> "items",
                     status |-> 0, property_id |-> Len(properties) + 1,
                     before |-> [properties |-> Len(properties),
                                 compliance_items |-> Len(compliance_items),
                                 documentation_gaps |-> Len(documentation_gaps)],
                     property_obj |-> << NewProperty(data) >>, items |-> << >>])
            /\ UNCHANGED last
    /\ UNCHANGED <<properties, compliance_items, documentation_gaps>>

\* lines 58-76: the items are added to the session
CreateItems(r) ==
    /\ requests[r].pc = "items"
    /\ LET compliance_requirements == RequiredItems(requests[r].property_obj[1])
       IN  requests' = [requests EXCEPT
                ![r].items = [k \in 1..Len(compliance_requirements) |->
                                NewComplianceItem(requests[r].property_id,
                                                  compliance_requirements[k])],
                ![r].pc = "gaps"]
    /\ UNCHANGED <<properties, compliance_items, documentation_gaps, last>>

\* line 79: gap detection reads the session's rows and commits the session
CreateGaps(r) ==
    /\ requests[r].pc = "gaps"
    /\ LET props1 == properties \o requests[r].property_obj
           items1 == compliance_items \o requests[r].items
           g == identify_documentation_gaps(props1, items1, documentation_gaps,
                                            requests[r].property_id)
       IN  /\ properties' = props1
           /\ compliance_items' = items1
           /\ documentation_gaps' = g.documentation_gaps
    /\ requests' = [requests EXCEPT ![r].property_obj = << >>, ![r].items = << >>,
                                    ![r].pc = "score"]
    /\ UNCHANGED last

\* line 82
CreateScore(r) ==
    /\ requests[r].pc = "score"
    /\ properties' = calculate_documentation_score(properties, compliance_items,
                                                   requests[r].property_id).properties
    /\ requests' = [requests EXCEPT ![r].pc = "commit"]
    /\ UNCHANGED <<compliance_items, documentation_gaps, last>>

\* lines 84-91: the last commit (nothing is left to write) and the answer
CreateCommit(r) ==
    /\ requests[r].pc = "commit"
    /\ requests' = [requests EXCEPT ![r].pc = "done", ![r].status = 201]
    /\ last' = [op |-> "create_enhanced_property", status |-> 201,
                property_id |-> requests[r].property_id,
                compliance_items_created |->
                    Len(RequiredItems(properties[requests[r].property_id])),
                calls |-> << "identify_documentation_gaps",
                             "calculate_documentation_score" >>,
                request |-> r]
    /\ UNCHANGED <<properties, compliance_items, documentation_gaps>>

\* lines 93-95: the statement the request is at raises; the rollback drops
\* what the session holds uncommitted, the committed rows stay
CreateRaises(r) ==
    /\ requests[r].pc \in {"items", "gaps", "score", "commit"}
    /\ requests' = [requests EXCEPT ![r].property_obj = << >>, ![r].items = << >>,
                                    ![r].pc = "done", ![r].status = 400]
    /\ last' = [op |-> "create_enhanced_property", status |-> 400,
                calls |-> << >>, request |-> r]
    /\ UNCHANGED <<properties, compliance_items, documentation_gaps>>

CreateArrives == \E data \in CreateBodies : CreateBegin(data)

ItemsStep == \E r \in DOMAIN requests : CreateItems(r)

GapsStep == \E r \in DOMAIN requests : CreateGaps(r)

ScoreStep == \E r \in DOMAIN requests : CreateScore(r)

FinalCommitStep == \E r \in DOMAIN requests : CreateCommit(r)

RaiseStep == \E r \in DOMAIN requests : CreateRaises(r)

NextCreate ==
    \/ CreateArrives
    \/ ItemsStep
    \/ GapsStep
    \/ ScoreStep
    \/ FinalCommitStep
    \/ RaiseStep

SpecCreate == Init /\ [][NextCreate]_vars

(***************************************************************************)
(* Properties.                                                             *)
(***************************************************************************)
\* the last call was calculate_documentation_score on an existing property
ScoreReturned ==
    /\ last.op = "calculate_documentation_score"
    /\ last.property_id \in DOMAIN properties

\* the compliant ComplianceItem rows of a property
CompliantRows(property_id) ==
    { i \in DOMAIN compliance_items :
        /\ compliance_items[i].property_id = property_id
        /\ compliance_items[i].is_compliant = TRUE }

\* the rule list of a stored property, from the rule table
RulesOf(property_id) ==
    get_applicable_compliance_items(properties[property_id].property_type,
                                    properties[property_id].ownership_type,
                                    properties[property_id].floor_level)

\* C1: for a property with a non-empty rule list, the score returned is
\* 100 * (compliant rows) / (size of the rule list), whatever the number of
\* persisted rows; a house with 0 compliant rows scores 0 and with 5 scores
\* 100, a hospital with 2 compliant rows scores 40.
ScoreIsCompliantOverRules ==
    ScoreReturned =>
        LET type == properties[last.property_id].property_type
            rules == RulesOf(last.property_id)
            compliant == Cardinality(CompliantRows(last.property_id))
        IN  rules # << >> =>
                /\ last.ret * Len(rules) = 100 * compliant
                /\ (type = "freestanding_house" /\ compliant = 0) => last.ret = 0
                /\ (type = "freestanding_house" /\ compliant = 5) => last.ret = 100
                /\ (type = "hospital" /\ compliant = 2) => last.ret = 40

\* witness of C1: a hospital with 3 rows persisted, 2 of them compliant, scored 40
HospitalTwoCompliantScored ==
    /\ ScoreReturned
    /\ properties[last.property_id].property_type = "hospital"
    /\ properties[last.property_id].floor_level = None
    /\ Len(compliance_items) = 3
    /\ Cardinality(CompliantRows(last.property_id)) = 2
    /\ last.ret = 40

\* C2: through the HTTP handlers, the stored documentation_score, the score
\* a call would return and every score a response carries are within [0, 100].
ScoreWithinRange ==
    /\ \A property_id \in DOMAIN properties :
        /\ properties[property_id].documentation_score \in 0..100
        /\ calculate_documentation_score(properties, compliance_items,
                                         property_id).ret \in 0..100
    /\ (last.op \in {"update_compliance_item", "resolve_documentation_gap"}
            /\ last.status = 200) => last.new_documentation_score \in 0..100
    /\ (last.op = "get_documentation_score" /\ last.status = 200)
            => last.documentation_score \in 0..100

\* witness of C2: an update brought a sectional-title unit to the score 100
UpdateReachedFullScore ==
    /\ last.op = "update_compliance_item"
    /\ last.status = 200
    /\ last.new_documentation_score = 100
    /\ properties[last.property_id].property_type = "sectional_title_apartment"
    /\ properties[last.property_id].documentation_score = 100

\* the property types the rule table has no branch for
UnmappedTypes ==
    {"cluster_home", "retail_space", "shopping_mall", "industrial", "vacant_land"}

\* C3: for a property of an unmapped type, of any ownership type and floor
\* level, the rule list is empty and the score returned is 100 whatever
\* ComplianceItem rows exist.
UnmappedTypeScoresFull ==
    (ScoreReturned /\ properties[last.property_id].property_type \in UnmappedTypes)
        => /\ RulesOf(last.property_id) = << >>
           /\ last.ret = 100

\* witness of C3: vacant land with one non-compliant row, scored 100
VacantLandWithRowScored ==
    /\ ScoreReturned
    /\ properties[last.property_id].property_type = "vacant_land"
    /\ properties[last.property_id].ownership_type = "trust"
    /\ properties[last.property_id].floor_level = "basement"
    /\ Len(compliance_items) = 1
    /\ ~compliance_items[1].is_compliant
    /\ last.ret = 100

\* C4: after calculate_documentation_score returns v for an existing
\* property, the documentation_score stored on the property is v.
ScoreReturnedIsStored ==
    ScoreReturned => properties[last.property_id].documentation_score = last.ret

\* the last call was identify_documentation_gaps on an existing property
GapsReturned ==
    /\ last.op = "identify_documentation_gaps"
    /\ last.property_id \in DOMAIN properties

\* some ComplianceItem row of the property has the name
HasRowNamed(property_id, name) ==
    \E i \in DOMAIN compliance_items :
        /\ compliance_items[i].property_id = property_id
        /\ compliance_items[i].name = name

\* the requirements of the property that have no row, by position in the rule list
Unmet(property_id) ==
    { k \in DOMAIN RulesOf(property_id) :
        ~HasRowNamed(property_id, RulesOf(property_id)[k].name) }

\* the description of the gap of a requirement
MissingDescription(req) ==
    "Missing " \o req.name \o " for " \o req.category \o " compliance"

\* C5: a call of identify_documentation_gaps creates a gap for a requirement
\* if and only if no ComplianceItem row of the property has its name
\* (compliant or not), and returns exactly the rows it created; a commercial
\* office with rows for 3 of its 4 requirements gets exactly 1 new gap.
GapsCreatedIffRowAbsent ==
    [][\A property_id \in DOMAIN properties :
        CallIdentifyDocumentationGaps(property_id) =>
            LET old == Len(documentation_gaps)
                created == (old + 1)..Len(documentation_gaps')
                rules == RulesOf(property_id)
            IN  /\ last'.ret = [k \in 1..Cardinality(created) |-> old + k]
                /\ \A k \in DOMAIN rules :
                     (\E i \in created :
                        /\ documentation_gaps'[i].property_id = property_id
                        /\ documentation_gaps'[i].description = MissingDescription(rules[k]))
                     <=> ~HasRowNamed(property_id, rules[k].name)
                /\ Cardinality(created) = Cardinality(Unmet(property_id))
                /\ (/\ properties[property_id].property_type = "commercial_office"
                    /\ Cardinality(Unmet(property_id)) = 1)
                        => Cardinality(created) = 1
      ]_vars

\* witness of C5: an office with 3 rows, compliant and not, got the one gap
OfficeOneGapCreated ==
    /\ GapsReturned
    /\ properties[last.property_id].property_type = "commercial_office"
    /\ Len(compliance_items) = 3
    /\ \E i, j \in DOMAIN compliance_items :
            compliance_items[i].is_compliant /\ ~compliance_items[j].is_compliant
    /\ last.ret = << 1 >>
    /\ Len(documentation_gaps) = 1
    /\ documentation_gaps[1].description = "Missing HVAC System COC for mechanical compliance"

\* C6: on a property without ComplianceItem rows the call returns one gap per
\* requirement, in rule order, each unresolved, of severity high for an
\* individual responsibility and medium for a shared one, and described as
\* "Missing {name} for {category} compliance".
FreshPropertyGapPerRequirement ==
    (GapsReturned /\ RowsOf(compliance_items, last.property_id) = {}) =>
        LET rules == RulesOf(last.property_id)
        IN  /\ Len(last.ret) = Len(rules)
            /\ \A j, k \in DOMAIN last.ret : j # k => last.ret[j] # last.ret[k]
            /\ \A k \in DOMAIN rules :
                /\ last.ret[k] \in DOMAIN documentation_gaps
                /\ LET gap == documentation_gaps[last.ret[k]]
                   IN  /\ gap.property_id = last.property_id
                       /\ gap.description =
                            "Missing " \o rules[k].name \o " for "
                                \o rules[k].category \o " compliance"
                       /\ gap.severity = IF rules[k].individual_responsibility
                                         THEN "high" ELSE "medium"
                       /\ gap.is_resolved = FALSE

\* witness of C6: a ground-floor townhouse without rows got its 5 gaps
GroundFloorUnitGaps ==
    /\ GapsReturned
    /\ properties[last.property_id].property_type = "sectional_title_townhouse"
    /\ properties[last.property_id].floor_level = "ground_floor"
    /\ compliance_items = << >>
    /\ Len(last.ret) = 5
    /\ documentation_gaps[last.ret[1]].severity = "high"
    /\ documentation_gaps[last.ret[5]].severity = "medium"
    /\ documentation_gaps[last.ret[5]].description =
            "Missing Foundation Inspection for structural compliance"

\* C7: every call appends one row per requirement missing at that moment,
\* whatever gap rows exist (resolved or not, of the same description or
\* not), and leaves every existing gap row as it was.
GapsAppendOnly ==
    [][\A property_id \in PropertyIds :
        CallIdentifyDocumentationGaps(property_id) =>
            LET old == Len(documentation_gaps)
                created == (old + 1)..Len(documentation_gaps')
            IN  /\ SubSeq(documentation_gaps', 1, old) = documentation_gaps
                /\ property_id \notin DOMAIN properties => created = {}
                /\ property_id \in DOMAIN properties =>
                    /\ Cardinality(created) = Cardinality(Unmet(property_id))
                    /\ \A k \in Unmet(property_id) :
                        \E i \in created :
                            documentation_gaps'[i].description =
                                MissingDescription(RulesOf(property_id)[k])
      ]_vars

\* witness of C7: a second call, after the first gap was resolved, left two
\* rows for the same missing item
DuplicateGapAfterResolve ==
    /\ GapsReturned
    /\ Len(documentation_gaps) = 2
    /\ last.ret = << 2 >>
    /\ documentation_gaps[1].property_id = documentation_gaps[2].property_id
    /\ documentation_gaps[1].description = documentation_gaps[2].description
    /\ documentation_gaps[1].is_resolved
    /\ ~documentation_gaps[2].is_resolved

\* the last call was get_applicable_compliance_items
RulesReturned == last.op = "get_applicable_compliance_items"

NamesOf(reqs) == [k \in DOMAIN reqs |-> reqs[k].name]

IndividualOf(reqs) == [k \in DOMAIN reqs |-> reqs[k].individual_responsibility]

\* C8: for a sectional-title apartment or townhouse the rule list is the 4
\* base items, followed on the top floor by Roof Access COC (individual), on
\* the ground floor by Foundation Inspection (shared), and by nothing for
\* any other or absent floor level.
SectionalTitleRules ==
    (RulesReturned /\ last.property_type \in
            {"sectional_title_apartment", "sectional_title_townhouse"}) =>
        LET names == << "Unit Electrical COC", "Unit Plumbing COC",
                        "Common Area Electrical", "Building Structural" >>
            individual == << TRUE, TRUE, FALSE, FALSE >>
        IN  IF last.floor_level = "top_floor" THEN
                /\ NamesOf(last.ret) = Append(names, "Roof Access COC")
                /\ IndividualOf(last.ret) = Append(individual, TRUE)
            ELSE IF last.floor_level = "ground_floor" THEN
                /\ NamesOf(last.ret) = Append(names, "Foundation Inspection")
                /\ IndividualOf(last.ret) = Append(individual, FALSE)
            ELSE
                /\ NamesOf(last.ret) = names
                /\ IndividualOf(last.ret) = individual

\* witness of C8: the rule list of a top-floor townhouse, 5 items
TopFloorTownhouseRules ==
    /\ RulesReturned
    /\ last.property_type = "sectional_title_townhouse"
    /\ last.floor_level = "top_floor"
    /\ Len(last.ret) = 5
    /\ last.ret[5].name = "Roof Access COC"

\* C9: for freestanding house, commercial office, school and hospital the
\* rule list is the table's list for the type (5, 4, 5 and 5 items), in the
\* table's order, all individual responsibilities, whatever the ownership
\* type and floor level: the result is a function of the property type.
FixedTypeRules ==
    RulesReturned =>
        /\ last.property_type = "freestanding_house" =>
                NamesOf(last.ret) = << "Electrical COC", "Plumbing COC", "Gas COC",
                                       "Roof Inspection", "Pool COC" >>
        /\ last.property_type = "commercial_office" =>
                NamesOf(last.ret) = << "Fire Safety COC", "Occupancy Certificate",
                                       "HVAC System COC", "Accessibility Compliance" >>
        /\ last.property_type = "school" =>
                NamesOf(last.ret) = << "Fire Safety COC", "Playground Safety",
                                       "Food Service COC", "Transportation Safety",
                                       "Accessibility Compliance" >>
        /\ last.property_type = "hospital" =>
                NamesOf(last.ret) = << "Medical Gas Systems", "Emergency Power Systems",
                                       "Infection Control Systems", "Waste Management COC",
                                       "Radiation Safety" >>
        /\ last.property_type \in
                {"freestanding_house", "commercial_office", "school", "hospital"} =>
                \A k \in DOMAIN last.ret : last.ret[k].individual_responsibility = TRUE

\* witness of C9: the rule list of a trust-owned school with a basement level
TrustSchoolRules ==
    /\ RulesReturned
    /\ last.property_type = "school"
    /\ last.ownership_type = "trust"
    /\ last.floor_level = "basement"
    /\ Len(last.ret) = 5

\* C10: a call of calculate_documentation_score right after a call on the
\* same property returns the same number and leaves the ComplianceItem rows,
\* the gap rows and the stored score as the first call left them.
ScoreIdempotent ==
    [][\A property_id \in PropertyIds :
        (/\ last.op = "calculate_documentation_score"
         /\ last.property_id = property_id
         /\ CallCalculateDocumentationScore(property_id)) =>
            /\ last'.ret = last.ret
            /\ properties' = properties
            /\ compliance_items' = compliance_items
            /\ documentation_gaps' = documentation_gaps
      ]_vars

\* witness of C10: a second call in succession returned 60 again
ScoredTwiceSame ==
    /\ ScoreReturned
    /\ last.prev = << last.ret >>
    /\ last.ret = 60
    /\ properties[last.property_id].documentation_score = 60
    /\ Len(compliance_items) = 4

\* C11: a creation request that succeeds appends, after the rows that were
\* there, one ComplianceItem per requirement of the rule list of the new
\* property's classification, in rule order (same name, category and
\* responsibility flag, is_required true, is_compliant false, responsible
\* party Owner if individual else Body Corporate); it then calls
\* identify_documentation_gaps once and calculate_documentation_score once, in
\* that order, so gap detection sees the rows just persisted; the response's
\* compliance_items_created is the length of the rule list.
CreationPersistsItemPerRequirement ==
    [][(last'.op = "create_enhanced_property" /\ last'.status = 201) =>
            LET pid == Len(properties) + 1
                reqs == get_applicable_compliance_items(properties'[pid].property_type,
                                                        properties'[pid].ownership_type,
                                                        properties'[pid].floor_level)
                n == Len(compliance_items)
            IN  /\ Len(properties') = pid
                /\ Len(compliance_items') = n + Len(reqs)
                /\ \A i \in 1..n : compliance_items'[i] = compliance_items[i]
                /\ \A k \in 1..Len(reqs) :
                        compliance_items'[n + k] =
                            [property_id |-> pid,
                             name |-> reqs[k].name,
                             category |-> reqs[k].category,
                             is_individual_responsibility |->
                                    reqs[k].individual_responsibility,
                             responsible_party |->
                                    IF reqs[k].individual_responsibility = TRUE
                                    THEN "Owner" ELSE "Body Corporate",
                             is_required |-> TRUE,
                             is_compliant |-> FALSE]
                /\ last'.status = 201
                /\ last'.property_id = pid
                /\ last'.compliance_items_created = Len(reqs)
                /\ last'.calls = << "identify_documentation_gaps",
                                    "calculate_documentation_score" >>
                /\ documentation_gaps' =
                        identify_documentation_gaps(properties', compliance_items',
                                                    documentation_gaps, pid).documentation_gaps
      ]_vars

\* witness of C11: a ground-floor apartment was created with its 5 items, the
\* unit's own for the owner and the shared ones for the body corporate
GroundFloorApartmentCreated ==
    /\ last.op = "create_enhanced_property"
    /\ last.status = 201
    /\ last.compliance_items_created = 5
    /\ properties[last.property_id].property_type = "sectional_title_apartment"
    /\ properties[last.property_id].floor_level = "ground_floor"
    /\ Len(compliance_items) = 5
    /\ compliance_items[1].name = "Unit Electrical COC"
    /\ compliance_items[1].responsible_party = "Owner"
    /\ compliance_items[5].name = "Foundation Inspection"
    /\ compliance_items[5].responsible_party = "Body Corporate"
    /\ \A i \in 1..5 : /\ compliance_items[i].is_required
                       /\ ~compliance_items[i].is_compliant

\* C12: in every state the requests can reach, every ComplianceItem row
\* belongs to a stored property and its name is one of the names of the rule
\* list of that property's stored classification.
ItemNamesWithinRules ==
    \A i \in DOMAIN compliance_items :
        /\ compliance_items[i].property_id \in DOMAIN properties
        /\ \E k \in DOMAIN RulesOf(compliance_items[i].property_id) :
                RulesOf(compliance_items[i].property_id)[k].name =
                    compliance_items[i].name

\* witness of C12: a hospital holds its 5 rows, one of them updated to compliant
HospitalRowsAfterUpdate ==
    /\ last.op = "update_compliance_item"
    /\ last.status = 200
    /\ properties[last.property_id].property_type = "hospital"
    /\ Len(compliance_items) = 5
    /\ compliance_items[3].name = "Infection Control Systems"
    /\ compliance_items[3].is_compliant

\* the step is an update request that found its item
UpdateAnswered ==
    /\ last'.op = "update_compliance_item"
    /\ last'.status = 200

\* C13: an update that finds its item changes fields of that one row only
\* (no other ComplianceItem row, no gap row), then calls
\* calculate_documentation_score once; new_documentation_score is the score
\* over the rows as they are after the update, 100 * compliant / n for a rule
\* list of n > 0 requirements, so one more compliant row raises the score by
\* 100/n and one fewer lowers it by 100/n.
UpdateThenScore ==
    [][\A pid \in PropertyIds : (UpdateAnswered /\ last'.property_id = pid) =>
        LET n == Len(RulesOf(pid))
            before == Cardinality(CompliantRows(pid))
            after == Cardinality(CompliantRows(pid)')
        IN  /\ \E cid \in DOMAIN compliance_items :
                /\ compliance_items[cid].property_id = pid
                /\ compliance_items' =
                        [compliance_items EXCEPT
                            ![cid].is_compliant = compliance_items'[cid].is_compliant]
            /\ documentation_gaps' = documentation_gaps
            /\ last'.calls = << "calculate_documentation_score" >>
            /\ n > 0
            /\ last'.new_documentation_score * n = 100 * after
            /\ properties'[pid].documentation_score = last'.new_documentation_score
            /\ after = before + 1 =>
                    last'.new_documentation_score * n =
                        properties[pid].documentation_score * n + 100
            /\ after = before - 1 =>
                    last'.new_documentation_score * n =
                        properties[pid].documentation_score * n - 100
            /\ after = before =>
                    last'.new_documentation_score = properties[pid].documentation_score
      ]_vars

\* witness of C13: the second certificate of a house was recorded, 20 became 40
HouseSecondItemUpdated ==
    /\ last.op = "update_compliance_item"
    /\ last.status = 200
    /\ properties[last.property_id].property_type = "freestanding_house"
    /\ Cardinality(CompliantRows(last.property_id)) = 2
    /\ last.new_documentation_score = 40
    /\ properties[last.property_id].documentation_score = 40

\* the last request was the read endpoint, answered for an existing property
ReadAnswered ==
    /\ last.op = "get_documentation_score"
    /\ last.status = 200

\* C14: the documentation_score the read endpoint answers is the score
\* stored on the property record, for every property.  The endpoint answers
\* what calculate_documentation_score returns, and for an empty rule list
\* that call returns 100 without storing it: the record of a property of an
\* unmapped type keeps 0 while the endpoint answers 100.
ReadReturnsStoredScore ==
    ReadAnswered =>
        last.documentation_score = properties[last.property_id].documentation_score

\* the gap rows of a property, and the resolved ones among them
GapRows(property_id) ==
    { i \in DOMAIN documentation_gaps :
        documentation_gaps[i].property_id = property_id }

ResolvedGapRows(property_id) ==
    { i \in GapRows(property_id) : documentation_gaps[i].is_resolved = TRUE }

\* the ComplianceItem rows of a property
ItemRows(property_id) ==
    { i \in DOMAIN compliance_items :
        compliance_items[i].property_id = property_id }

\* the fraction f is the number 100 * part / whole
IsPercentOf(f, part, whole) ==
    /\ f.den > 0
    /\ f.num * whole = 100 * part * f.den

\* C15: the read endpoint's breakdown counts persisted rows only, whatever
\* the rule list: total_items and compliant_items are the property's
\* ComplianceItem rows and the compliant ones among them, compliance_percentage
\* is 100 * compliant_items / total_items and 0 without items; total_gaps and
\* resolved_gaps are its gap rows and the resolved ones among them,
\* resolution_percentage is 100 * resolved_gaps / total_gaps and 100 without
\* gaps; compliant_items <= total_items and resolved_gaps <= total_gaps.
ReadBreakdownFromRows ==
    ReadAnswered =>
        /\ last.total_items = Cardinality(ItemRows(last.property_id))
        /\ last.compliant_items = Cardinality(CompliantRows(last.property_id))
        /\ last.total_gaps = Cardinality(GapRows(last.property_id))
        /\ last.resolved_gaps = Cardinality(ResolvedGapRows(last.property_id))
        /\ last.compliant_items <= last.total_items
        /\ last.resolved_gaps <= last.total_gaps
        /\ IF last.total_items = 0
           THEN last.compliance_percentage = [num |-> 0, den |-> 1]
           ELSE IsPercentOf(last.compliance_percentage,
                            last.compliant_items, last.total_items)
        /\ IF last.total_gaps = 0
           THEN last.resolution_percentage = [num |-> 100, den |-> 1]
           ELSE IsPercentOf(last.resolution_percentage,
                            last.resolved_gaps, last.total_gaps)

\* witness of C15: a house with 3 of its 5 rows, 1 compliant, and 2 gaps, 1
\* resolved, was read: 100/3 percent compliant, 50 percent resolved
HouseThreeRowsRead ==
    /\ ReadAnswered
    /\ Len(RulesOf(last.property_id)) = 5
    /\ last.total_items = 3
    /\ last.compliant_items = 1
    /\ last.compliance_percentage = [num |-> 100, den |-> 3]
    /\ last.total_gaps = 2
    /\ last.resolved_gaps = 1
    /\ last.resolution_percentage = [num |-> 50, den |-> 1]

\* C16: a resolve request that finds its gap sets is_resolved on that gap row
\* and changes no other gap row and no ComplianceItem row; it then calls
\* calculate_documentation_score once, and new_documentation_score is what
\* that call returns: 100 * compliant / n for a rule list of n > 0
\* requirements (stored by the call), 100 for an empty rule list.
ResolveMarksOneGapThenScores ==
    [][\A pid \in PropertyIds, gid \in GapIds :
        (/\ last'.op = "resolve_documentation_gap"
         /\ last'.status = 200
         /\ resolve_documentation_gap(pid, gid)) =>
            /\ gid \in GapRows(pid)
            /\ documentation_gaps' =
                    [documentation_gaps EXCEPT ![gid].is_resolved = TRUE]
            /\ compliance_items' = compliance_items
            /\ last'.calls = << "calculate_documentation_score" >>
            /\ IF RulesOf(pid) = << >>
               THEN last'.new_documentation_score = 100
               ELSE /\ last'.new_documentation_score * Len(RulesOf(pid)) =
                            100 * Cardinality(CompliantRows(pid))
                    /\ properties'[pid].documentation_score =
                            last'.new_documentation_score
      ]_vars

\* witness of C16: the second of two gaps of an office was resolved, the first
\* is still open, and the answer was 50 for 2 compliant rows of 4 requirements
OfficeSecondGapResolved ==
    /\ last.op = "resolve_documentation_gap"
    /\ last.status = 200
    /\ properties[last.property_id].property_type = "commercial_office"
    /\ Len(documentation_gaps) = 2
    /\ ~documentation_gaps[1].is_resolved
    /\ documentation_gaps[2].is_resolved
    /\ Cardinality(CompliantRows(last.property_id)) = 2
    /\ last.new_documentation_score = 50

\* C17: the ComplianceItem rows of a stored property are fixed: no step adds
\* a row to it or removes one, and a row keeps its property, name, category
\* and responsibility; a step changes other fields of existing rows only.
ItemRowsFixedAfterCreation ==
    [][\A pid \in DOMAIN properties :
        /\ ItemRows(pid)' = ItemRows(pid)
        /\ \A i \in ItemRows(pid) :
            /\ compliance_items'[i].name = compliance_items[i].name
            /\ compliance_items'[i].category = compliance_items[i].category
            /\ compliance_items'[i].is_individual_responsibility =
                    compliance_items[i].is_individual_responsibility
            /\ compliance_items'[i].responsible_party =
                    compliance_items[i].responsible_party
            /\ compliance_items'[i].is_required = compliance_items[i].is_required
      ]_vars

\* witness of C17: an office still has its 4 rows, in rule order, after
\* updates that made the first and the last compliant and a read
OfficeRowsAfterUpdatesAndRead ==
    /\ ReadAnswered
    /\ properties[last.property_id].property_type = "commercial_office"
    /\ NamesOf(compliance_items) = NamesOf(CommercialOfficeItems)
    /\ compliance_items[1].is_compliant
    /\ compliance_items[4].is_compliant
    /\ last.total_items = 4
    /\ last.compliant_items = 2

\* C18: gap rows have a one-way lifecycle.  No step removes a gap row or
\* changes a field of one other than is_resolved; a step that adds gap rows
\* is a call of identify_documentation_gaps and adds them unresolved; a step
\* that makes a gap row resolved is an answered resolve request for that
\* row's property and resolves that one row; a resolved row stays resolved.
GapLifecycleOneWay ==
    [][/\ Len(documentation_gaps') >= Len(documentation_gaps)
       /\ \A i \in DOMAIN documentation_gaps :
            /\ documentation_gaps'[i] =
                    [documentation_gaps[i] EXCEPT
                        !.is_resolved = documentation_gaps'[i].is_resolved]
            /\ documentation_gaps[i].is_resolved => documentation_gaps'[i].is_resolved
            /\ (~documentation_gaps[i].is_resolved /\ documentation_gaps'[i].is_resolved) =>
                    /\ last'.op = "resolve_documentation_gap"
                    /\ last'.status = 200
                    /\ last'.property_id = documentation_gaps[i].property_id
                    /\ \A j \in DOMAIN documentation_gaps :
                            j # i => documentation_gaps'[j] = documentation_gaps[j]
       /\ Len(documentation_gaps') > Len(documentation_gaps) =>
            /\ last'.op = "identify_documentation_gaps"
            /\ \A i \in DOMAIN documentation_gaps' :
                    i > Len(documentation_gaps) =>
                        /\ documentation_gaps'[i].is_resolved = FALSE
                        /\ documentation_gaps'[i].property_id = last'.property_id
      ]_vars

\* witness of C18: a gap detected and resolved is still there, resolved,
\* after a second detection added an open gap and an update and a read followed
ResolvedGapKeptThroughLaterRequests ==
    /\ ReadAnswered
    /\ Len(documentation_gaps) = 2
    /\ documentation_gaps[1].is_resolved
    /\ ~documentation_gaps[2].is_resolved
    /\ documentation_gaps[1].description = documentation_gaps[2].description
    /\ last.total_gaps = 2
    /\ last.resolved_gaps = 1
    /\ last.compliant_items >= 1

\* C19: on a stored property of any type, ownership type and floor level
\* (absent included), with any rows, each of the three functions ends with a
\* value and not with an exception: the rule table gives a list of
\* requirements, the score a number (100 for an empty rule list, the
\* division never reached with a zero divisor), gap detection the list of
\* the rows it added.
CoreFunctionsNeverFail ==
    /\ (last.op = "get_applicable_compliance_items") =>
            /\ DOMAIN last.ret = 1..Len(last.ret)
            /\ \A k \in DOMAIN last.ret :
                    DOMAIN last.ret[k] = {"name", "category", "individual_responsibility"}
    /\ (last.op = "calculate_documentation_score"
            /\ last.property_id \in DOMAIN properties) =>
            /\ last.raised = FALSE
            /\ last.ret \in Nat
            /\ RulesOf(last.property_id) = << >> => last.ret = 100
    /\ (last.op = "identify_documentation_gaps"
            /\ last.property_id \in DOMAIN properties) =>
            /\ DOMAIN last.ret = 1..Len(last.ret)
            /\ \A k \in DOMAIN last.ret : last.ret[k] \in DOMAIN documentation_gaps

\* witness of C19: the score of a retail space without floor level, holding a
\* compliant stray row, was computed: 100, no exception
RetailSpaceNoFloorScored ==
    /\ ScoreReturned
    /\ properties[last.property_id].property_type = "retail_space"
    /\ properties[last.property_id].floor_level = None
    /\ Len(compliance_items) = 1
    /\ compliance_items[1].is_compliant
    /\ last.raised = FALSE
    /\ last.ret = 100

\* two requests for the same property with a rule list have arrived and both
\* have run their recalculation to its commit
BothCommitted ==
    /\ Len(requests) = 2
    /\ requests[1].property_id = requests[2].property_id
    /\ \A r \in DOMAIN requests :
            /\ requests[r].pc = "done"
            /\ requests[r].status = 200
            /\ RulesOf(requests[r].property_id) # << >>

\* the recalculation of request r sent an UPDATE: it computed another value
\* than the one it had loaded
SentUpdate(r) == requests[r].ret # requests[r].loaded_score

ScoreStale(property_id) ==
    properties[property_id].documentation_score * Len(RulesOf(property_id)) #
        100 * Cardinality(CompliantRows(property_id))

\* C21: update requests in flight together can leave the stored score stale:
\* the stored score changes at the commit of a recalculation and at no other
\* step, so a score that is not 100 * compliant rows / rule-list size once
\* the requests have completed stays until a later recalculation of that
\* property commits.  (The state in which two updates of different items
\* have completed and left such a score is the witness.)
StoredScoreChangesAtCommitOnly ==
    [][properties' # properties =>
        \E r \in DOMAIN requests :
            /\ requests[r].pc = "commit"
            /\ requests'[r].pc = "done"
            /\ properties' =
                    [properties EXCEPT
                        ![requests[r].property_id].documentation_score = requests'[r].ret]
      ]_vars

\* witness of C21: two update requests marked two different rows of an
\* office compliant and both completed; the stored score is 25, not 50
TwoUpdatesDoneScoreStale ==
    /\ BothCommitted
    /\ \A r \in DOMAIN requests : requests[r].op = "update_compliance_item"
    /\ Cardinality(CompliantRows(1)) = 2
    /\ properties[1].documentation_score = 25
    /\ ScoreStale(1)

\* C22: with requests run one after the other, after every request the
\* stored score of a property with a rule list of n > 0 requirements is
\* 100 * (its compliant rows) / n; the stored score of a property with an
\* empty rule list is the initial 0, never written, while the score computed
\* for it (answered by the read endpoint) is 100.
SequentialStoredScore ==
    /\ \A pid \in DOMAIN properties :
            IF RulesOf(pid) # << >>
            THEN ~ScoreStale(pid)
            ELSE properties[pid].documentation_score = 0
    /\ (ReadAnswered /\ RulesOf(last.property_id) = << >>) =>
            last.documentation_score = 100

\* witness of C22: after three updates and a read, a hospital with 3 of 5
\* rows compliant stores 60
HospitalThreeCompliantStored ==
    /\ ReadAnswered
    /\ properties[last.property_id].property_type = "hospital"
    /\ Cardinality(CompliantRows(last.property_id)) = 3
    /\ properties[last.property_id].documentation_score = 60
    /\ last.documentation_score = 60

\* C23: no gap row exists in any state the requests reach: the creation
\* handler adds an item for every requirement before it runs gap detection,
\* which then finds every name, and no other handler calls gap detection or
\* removes an item; so every resolve request is answered not-found.
NoGapRowEver ==
    /\ documentation_gaps = << >>
    /\ \A pid \in DOMAIN properties : Unmet(pid) = {}
    /\ last.op = "resolve_documentation_gap" => last.status = 404

\* witness of C23: a resolve request for a stored house with its 5 items
\* was answered not-found
ResolveOnHouseNotFound ==
    /\ last.op = "resolve_documentation_gap"
    /\ last.status = 404
    /\ last.property_id \in DOMAIN properties
    /\ properties[last.property_id].property_type = "freestanding_house"
    /\ Len(compliance_items) = 5
    /\ documentation_gaps = << >>

\* C24: when a creation request has answered 400, nothing it wrote is
\* persisted: the three tables are as long as they were when it arrived.
\* The commit inside identify_documentation_gaps has by then persisted the
\* property and its items, so a failure in the score call or the last commit
\* answers 400 and leaves them.
FailedCreationLeavesNothing ==
    (last.op = "create_enhanced_property" /\ last.status = 400) =>
        /\ Len(properties) = requests[last.request].before.properties
        /\ Len(compliance_items) = requests[last.request].before.compliance_items
        /\ Len(documentation_gaps) = requests[last.request].before.documentation_gaps

\* the step is a statement of a request for the property, or a call of the
\* resolve handler or of gap detection for it
StepFor(property_id) ==
    \/ \E r \in DOMAIN requests' :
            /\ (r \notin DOMAIN requests \/ requests'[r] # requests[r])
            /\ requests'[r].property_id = property_id
    \/ /\ requests' = requests
       /\ last'.property_id = property_id

\* the ComplianceItem rows, the gap rows and the stored score of a property
StateOf(property_id) ==
    [items |-> [i \in ItemRows(property_id) |-> compliance_items[i]],
     gaps |-> [i \in GapRows(property_id) |-> documentation_gaps[i]],
     documentation_score |-> properties[property_id].documentation_score]

\* C25: a step of an operation on one property (a statement of an update or
\* read request with its score calculation, the resolve handler, gap
\* detection) leaves the ComplianceItem rows, the gap rows and the stored
\* score of every other property as they were, however the requests for
\* different properties interleave.
OtherPropertiesUnchanged ==
    [][\A property_id \in PropertyIds :
            StepFor(property_id) =>
                \A other \in DOMAIN properties :
                    other # property_id => StateOf(other)' = StateOf(other)]_vars

\* interleaved update requests for the two properties have both stored a
\* score, a gap of the first was resolved, one of the second is open
BothPropertiesUpdated ==
    /\ Len(requests) = 2
    /\ requests[1].property_id = 1
    /\ requests[2].property_id = 2
    /\ \A r \in DOMAIN requests :
            /\ requests[r].op = "update_compliance_item"
            /\ requests[r].pc = "done"
            /\ requests[r].status = 200
    /\ properties[1].documentation_score > 0
    /\ properties[2].documentation_score > 0
    /\ ResolvedGapRows(1) # {}
    /\ GapRows(2) \ ResolvedGapRows(2) # {}

\* what calculate_documentation_score returns for the property in this state
ScoreNow(property_id) ==
    calculate_documentation_score(properties, compliance_items, property_id).ret

\* C26: the score does not depend on gap rows: a step that leaves the
\* ComplianceItem rows alone (gap detection adding gap rows, a resolve
\* setting a flag) leaves the value calculate_documentation_score returns
\* for every property as it was, and the new_documentation_score a resolve
\* answers is the score the property had just before the gap was resolved.
ScoreIgnoresGaps ==
    [][\A property_id \in DOMAIN properties :
            /\ compliance_items' = compliance_items =>
                    ScoreNow(property_id)' = ScoreNow(property_id)
            /\ (/\ last'.op = "resolve_documentation_gap"
                /\ last'.status = 200
                /\ last'.property_id = property_id) =>
                    last'.new_documentation_score = ScoreNow(property_id)]_vars

\* the last of several gaps of a property with one compliant row of four was
\* resolved, and the resolve answered 25
LastOpenGapResolvedScoreKept ==
    /\ last.op = "resolve_documentation_gap"
    /\ last.status = 200
    /\ last.new_documentation_score = 25
    /\ Cardinality(GapRows(last.property_id)) >= 2
    /\ ResolvedGapRows(last.property_id) = GapRows(last.property_id)

\* C27: in every state reached by sequential requests a stored property with
\* a rule list has as many ComplianceItem rows as the list has requirements,
\* and a read answered for it returns a compliance_percentage equal to its
\* documentation_score; for a property with an empty rule list the read
\* returns documentation_score 100 and compliance_percentage 0.
ReadScoreEqualsCompliancePercentage ==
    /\ \A property_id \in DOMAIN properties :
            RulesOf(property_id) # << >> =>
                Cardinality(ItemRows(property_id)) = Len(RulesOf(property_id))
    /\ ReadAnswered =>
            IF RulesOf(last.property_id) # << >>
            THEN /\ last.total_items = Len(RulesOf(last.property_id))
                 /\ last.compliance_percentage.den = 1
                 /\ last.compliance_percentage.num = last.documentation_score
            ELSE /\ last.documentation_score = 100
                 /\ last.compliance_percentage = Fraction(0, 1)

\* a read of a house with two of its five rows compliant answered 40 twice
HouseReadFortyTwice ==
    /\ ReadAnswered
    /\ properties[last.property_id].property_type = "freestanding_house"
    /\ last.total_items = 5
    /\ last.compliant_items = 2
    /\ last.documentation_score = 40
    /\ last.compliance_percentage = Fraction(40, 1)

\* C28: when requests run one after the other, a read-score request changes
\* no persisted state: the property records with their stored scores, the
\* ComplianceItem rows and the gap rows are the same after it as before,
\* although it calls calculate_documentation_score.
ReadChangesNothing ==
    [][last'.op = "get_documentation_score" =>
            /\ properties' = properties
            /\ compliance_items' = compliance_items
            /\ documentation_gaps' = documentation_gaps]_vars

\* an office with three of its four rows compliant was read: the read
\* calculated 75 and the record holds the 75 the last update stored
OfficeReadKeepsStoredScore ==
    /\ ReadAnswered
    /\ last.calls = << "calculate_documentation_score" >>
    /\ properties[last.property_id].property_type = "commercial_office"
    /\ last.documentation_score = 75
    /\ properties[last.property_id].documentation_score = 75

\* the table has a row with this id that belongs to the property
OwnRow(table, id, property_id) ==
    /\ id \in DOMAIN table
    /\ table[id].property_id = property_id

\* the step is the arrival of an update request
UpdateArrived ==
    /\ Len(requests') = Len(requests) + 1
    /\ requests'[Len(requests')].op = "update_compliance_item"

\* the step is a call of the resolve handler
ResolveCalled ==
    /\ requests' = requests
    /\ last'.op = "resolve_documentation_gap"

\* C29: an update or resolve request is answered only if its item (gap) id
\* is a row of the property it names, and then changes rows of that property
\* only; with an id that does not exist or belongs to another property it
\* ends in not-found, changes no property record, ComplianceItem row or gap
\* row, and calculates no score: the resolve lists no call, the update
\* request is done at once and no later step moves it.
ForeignIdsNotFound ==
    /\ [](\A r \in DOMAIN requests :
            requests[r].status = 404 => requests[r].pc = "done")
    /\ [][/\ \A r \in DOMAIN requests :
                requests[r].status = 404 => requests'[r] = requests[r]
          /\ UpdateArrived =>
                /\ IF requests'[Len(requests')].status = 404
                   THEN /\ requests'[Len(requests')].pc = "done"
                        /\ UNCHANGED <<properties, compliance_items,
                                       documentation_gaps>>
                   ELSE \A property_id \in PropertyIds,
                           compliance_id \in ComplianceIds, data \in UpdateBodies :
                            UpdatePersist(property_id, compliance_id, data) =>
                                OwnRow(compliance_items, compliance_id, property_id)
                /\ \A i \in DOMAIN compliance_items :
                        compliance_items'[i] # compliance_items[i] =>
                            compliance_items[i].property_id =
                                requests'[Len(requests')].property_id
          /\ ResolveCalled =>
                /\ IF last'.status = 404
                   THEN /\ last'.calls = << >>
                        /\ UNCHANGED <<properties, compliance_items,
                                       documentation_gaps>>
                   ELSE \A property_id \in PropertyIds, gap_id \in GapIds :
                            resolve_documentation_gap(property_id, gap_id) =>
                                OwnRow(documentation_gaps, gap_id, property_id)
                /\ \A g \in DOMAIN documentation_gaps :
                        documentation_gaps'[g] # documentation_gaps[g] =>
                            documentation_gaps[g].property_id = last'.property_id
         ]_vars

\* the first property has rows and no gap, the second has an open gap: a
\* resolve naming the first and an update naming the second with an item of
\* the first were both answered not-found
ForeignIdsAnsweredNotFound ==
    /\ Len(properties) = 2
    /\ last.op = "resolve_documentation_gap"
    /\ last.status = 404
    /\ last.property_id = 1
    /\ GapRows(1) = {}
    /\ GapRows(2) # {}
    /\ ResolvedGapRows(2) = {}
    /\ \E r \in DOMAIN requests :
            /\ requests[r].op = "update_compliance_item"
            /\ requests[r].status = 404
            /\ requests[r].property_id = 2
    /\ ItemRows(1) # {}
    /\ \A i \in ItemRows(1) \cup ItemRows(2) : ~compliance_items[i].is_compliant

\* the property types whose rule list has floor-specific requirements
SectionalTitleTypes == {"sectional_title_apartment", "sectional_title_townhouse"}

\* C30: the rule list does not depend on the ownership type: for the property
\* type and floor level of a call every ownership type gives the sequence
\* returned; and the floor level matters for sectional-title apartments and
\* townhouses only: for every other property type every floor level, none
\* included, gives the sequence returned.
RulesIgnoreOwnershipAndForeignFloor ==
    RulesReturned =>
        /\ \A ownership_type \in OwnershipType :
                get_applicable_compliance_items(last.property_type, ownership_type,
                                                last.floor_level) = last.ret
        /\ last.property_type \notin SectionalTitleTypes =>
                \A ownership_type \in OwnershipType, floor_level \in FloorLevelOrNone :
                    get_applicable_compliance_items(last.property_type, ownership_type,
                                                    floor_level) = last.ret

\* the rules of a top-floor office that is not individually owned were asked
\* for, and are the four of the office list
TopFloorOfficeRulesReturned ==
    /\ RulesReturned
    /\ last.property_type = "commercial_office"
    /\ last.ownership_type # "individual"
    /\ last.floor_level = "top_floor"
    /\ last.ret = CommercialOfficeItems
    /\ Len(last.ret) = 4

====
